---- MODULE Spec2Model ----
(***************************************************************************)
(* Model of ImmersedBoundaryMembraneElasticityForce<2>                     *)
(* (src/src/ImmersedBoundaryMembraneElasticityForce.cpp): the lazily bound *)
(* mesh, the one-time validation and tagging, and the Hookean spring force *)
(* added to every node of every element.                                   *)
(*                                                                         *)
(* Real numbers are exact rationals <<numerator, denominator>>; the pair   *)
(* <<0, 0>> is the IEEE not-a-number that a division by a zero distance    *)
(* produces.  Node positions lie on a grid of GridSize points per side of  *)
(* the periodic domain, and the meshes considered are those in which every *)
(* pair of cyclically adjacent nodes is at a whole-number distance, so     *)
(* that norm_2 is computed exactly.                                        *)
(***************************************************************************)
EXTENDS Integers, Sequences, FiniteSets, TLC

\* ------------------------------------------------------------------ bounds
GridSize == 4        \* grid points per side of the periodic domain
MaxCalls == 2        \* force calls in one behaviour
MaxEnvSteps == 2     \* steps of the surrounding simulation in one behaviour
MaxGarbage == 2      \* largest value read from a member that was never assigned
MaxId == 2           \* largest --ID given to the sweep driver
MaxK == 2            \* largest --K given to the sweep driver

\* --------------------------------------------------------------- rationals
Abs(x) == IF x < 0 THEN -x ELSE x

RECURSIVE Gcd(_, _)
Gcd(a, b) == IF b = 0 THEN a ELSE Gcd(b, a % b)

NaN == <<0, 0>>
IsNaN(a) == a[2] = 0

\* the fraction p/q in lowest terms with a positive denominator (q # 0)
Rat(p, q) ==
    LET g == Gcd(Abs(p), Abs(q))
        s == IF q < 0 THEN -1 ELSE 1
    IN  <<s * (p \div g), s * (q \div g)>>

Whole(n) == <<n, 1>>
Zero == Whole(0)

RMul(a, b) ==
    IF IsNaN(a) \/ IsNaN(b) THEN NaN
    ELSE LET x == Rat(a[1], b[2])
             y == Rat(b[1], a[2])
         IN  Rat(x[1] * y[1], x[2] * y[2])

RAdd(a, b) ==
    IF IsNaN(a) \/ IsNaN(b) THEN NaN
    ELSE LET g == Gcd(a[2], b[2])
         IN  Rat(a[1] * (b[2] \div g) + b[1] * (a[2] \div g), (a[2] \div g) * b[2])

RNeg(a) == IF IsNaN(a) THEN NaN ELSE <<-a[1], a[2]>>
RSub(a, b) == RAdd(a, RNeg(b))

\* a / b with b # 0 and neither operand NaN
RDiv(a, b) == RMul(a, Rat(b[2], b[1]))

\* ----------------------------------------------------------------- vectors
NaNVec == <<NaN, NaN>>
ZeroVec == <<Zero, Zero>>
VAdd(u, v) == <<RAdd(u[1], v[1]), RAdd(u[2], v[2])>>
VSub(u, v) == <<RSub(u[1], v[1]), RSub(u[2], v[2])>>
VScale(c, v) == <<RMul(c, v[1]), RMul(c, v[2])>>

\* ------------------------------------------------------------------- state
NumElements == 2     \* elements of the mesh (cells of the palisade)
msBas == 0
msApi == 1
msLat == 2
DefaultSpringConstant == 1000000
DefaultBasementSpringConstantModifier == 5

Elements == 0 .. (NumElements - 1)
Untagged == msLat + 1             \* region of a node no force object has tagged
NoMembrane == NumElements         \* membrane index of a mesh without basement lamina
NULL == "NULL"
Uninitialised == "uninitialised"  \* a member the constructor does not set
Grid == (0 .. (GridSize - 1)) \X (0 .. (GridSize - 1))

VARIABLES
    \* the mesh and its population (owned outside the force object)
    nodeLocation,       \* node index -> <<x, y>>, grid units
    nodeAppliedForce,   \* node index -> force accumulator, a vector of rationals
    nodeRegion,         \* node index -> msBas, msApi, msLat or Untagged
    elemNodes,          \* element index -> sequence of node indices (the ring)
    elemCornerNodes,    \* element index -> sequence of corner node indices
    elemAttributes,     \* element index -> sequence of rationals
    membraneIndex,      \* index of the basement lamina element, or NoMembrane
    intrinsicSpacing,   \* the populations' intrinsic spacing, grid units
    populationMesh,     \* population -> the mesh it wraps
    \* the force object
    forceObject,        \* which force object is in use (1 = the first constructed)
    mpMesh,
    mElementsHaveCorners,
    mReferenceLocationInAttributesVector,
    mSpringConstant,
    mRestLengthMultiplier,
    mBasementSpringConstantModifier,
    mBasementRestLengthModifier,
    \* bookkeeping of the run
    lastCall,           \* what the most recent force call saw and did
    prevCall,           \* the same for the force call before it
    numCalls,
    numEnvSteps,
    \* the sweep driver (src/unnamed/part_001)
    driver              \* where main is, its options, and what it has done

meshVars == <<nodeLocation, nodeAppliedForce, nodeRegion, elemNodes, elemCornerNodes,
              elemAttributes, membraneIndex, intrinsicSpacing, populationMesh>>
forceVars == <<forceObject, mpMesh, mElementsHaveCorners, mReferenceLocationInAttributesVector,
               mSpringConstant, mRestLengthMultiplier, mBasementSpringConstantModifier,
               mBasementRestLengthModifier>>
runVars == <<lastCall, prevCall, numCalls, numEnvSteps, driver>>
vars == <<meshVars, forceVars, runVars>>

Nodes == DOMAIN nodeLocation
GetNumNodes(e) == Len(elemNodes[e])
GetNode(e, i) == elemNodes[e][i + 1]          \* local indices count from 0
GetNodeLocation(e, i) == nodeLocation[GetNode(e, i)]
LocalIndices(e) == 0 .. (GetNumNodes(e) - 1)

\* ---------------------------------------------------------------- geometry
\* One component of the displacement a -> b across the periodic domain: a
\* difference of more than half the domain goes the other way round.
WrapComponent(c) ==
    IF 2 * Abs(c) > GridSize
    THEN (IF c > 0 THEN -1 ELSE 1) * (GridSize - Abs(c))
    ELSE c

GetVectorFromAtoB(a, b) == <<WrapComponent(b[1] - a[1]), WrapComponent(b[2] - a[2])>>

NormSquared(v) == v[1] * v[1] + v[2] * v[2]
IsSquare(n) == \E r \in 0 .. n : r * r = n
\* norm_2 of a grid vector whose length is a whole number
norm_2(v) == CHOOSE r \in 0 .. NormSquared(v) : r * r = NormSquared(v)

RECURSIVE SumTo(_, _)
\* f(0) + ... + f(n - 1) over the integers
SumTo(f(_), n) == IF n = 0 THEN 0 ELSE SumTo(f, n - 1) + f(n - 1)

SegmentLength(e, i) ==
    norm_2(GetVectorFromAtoB(GetNodeLocation(e, i), GetNodeLocation(e, (i + 1) % GetNumNodes(e))))

GetSurfaceAreaOfElement(e) ==
    LET len(i) == SegmentLength(e, i) IN SumTo(len, GetNumNodes(e))

GetAverageNodeSpacingOfElement(e) == Rat(GetSurfaceAreaOfElement(e), GetNumNodes(e))

\* ------------------------------------------------------------ spring force
\* a spring constant scaled by intrinsic spacing / spacing_ratio, not its square
SpringConstantNotSquared(e) ==
    LET spacing_ratio == GetAverageNodeSpacingOfElement(e)
        spring_constant == RDiv(RMul(mSpringConstant, intrinsicSpacing), spacing_ratio)
    IN  IF e = membraneIndex
        THEN RMul(spring_constant, mBasementSpringConstantModifier)
        ELSE spring_constant

\* spring_constant of element e, after the basement lamina's modification
SpringConstantOfElement(e) ==
    LET spacing_ratio == GetAverageNodeSpacingOfElement(e)
        intrinsic_spacing_squared == RMul(intrinsicSpacing, intrinsicSpacing)
        spring_constant == RDiv(RMul(mSpringConstant, intrinsic_spacing_squared),
                                RMul(spacing_ratio, spacing_ratio))
    IN  IF e = membraneIndex
        THEN RMul(spring_constant, mBasementSpringConstantModifier)
        ELSE spring_constant

\* a rest length that the basement lamina does not modify
RestLengthUnmodified(e) == RMul(mRestLengthMultiplier, GetAverageNodeSpacingOfElement(e))

\* a rest length taken from the intrinsic spacing, not the element's own spacing
RestLengthFromIntrinsicSpacing(e) ==
    LET rest_length == RMul(mRestLengthMultiplier, intrinsicSpacing)
    IN  IF e = membraneIndex
        THEN RMul(rest_length, mBasementRestLengthModifier)
        ELSE rest_length

\* rest_length of element e, after the basement lamina's modification
RestLengthOfElement(e) ==
    LET spacing_ratio == GetAverageNodeSpacingOfElement(e)
        rest_length == RMul(mRestLengthMultiplier, spacing_ratio)
    IN  IF e = membraneIndex
        THEN RMul(rest_length, mBasementRestLengthModifier)
        ELSE rest_length

\* a force loop that leaves out the pairs at distance 0
ElasticForceSkippingZeroDistance(e) ==
    LET num_nodes == GetNumNodes(e)
        spring_constant == SpringConstantOfElement(e)
        rest_length == RestLengthOfElement(e)
    IN  [node_idx \in LocalIndices(e) |->
            LET next_idx == (node_idx + 1) % num_nodes
                vec == GetVectorFromAtoB(GetNodeLocation(e, node_idx),
                                         GetNodeLocation(e, next_idx))
                normed_dist == norm_2(vec)
            IN  IF normed_dist = 0
                THEN ZeroVec
                ELSE VScale(RDiv(RMul(spring_constant, RSub(Whole(normed_dist), rest_length)),
                                 Whole(normed_dist)),
                            <<Whole(vec[1]), Whole(vec[2])>>)]

\* elastic_force_to_next_node of element e, indexed by local node index.  At
\* distance 0 the factor is x / 0, infinite or not a number, and its product
\* with the zero displacement is not a number in both components.
ElasticForceToNextNode(e) ==
    LET num_nodes == GetNumNodes(e)
        spring_constant == SpringConstantOfElement(e)
        rest_length == RestLengthOfElement(e)
    IN  [node_idx \in LocalIndices(e) |->
            LET next_idx == (node_idx + 1) % num_nodes
                vec == GetVectorFromAtoB(GetNodeLocation(e, node_idx),
                                         GetNodeLocation(e, next_idx))
                normed_dist == norm_2(vec)
            IN  IF normed_dist = 0
                THEN NaNVec
                ELSE VScale(RDiv(RMul(spring_constant, RSub(Whole(normed_dist), rest_length)),
                                 Whole(normed_dist)),
                            <<Whole(vec[1]), Whole(vec[2])>>)]

\* an aggregate force that adds the two springs of a node
AggregateForceOfSum(elastic_force_to_next_node, node_idx) ==
    LET num_nodes == Cardinality(DOMAIN elastic_force_to_next_node)
        prev_idx == (node_idx + num_nodes - 1) % num_nodes
    IN  VAdd(elastic_force_to_next_node[node_idx], elastic_force_to_next_node[prev_idx])

\* aggregate_force of local node node_idx, given the element's
\* elastic_force_to_next_node
AggregateForce(elastic_force_to_next_node, node_idx) ==
    LET num_nodes == Cardinality(DOMAIN elastic_force_to_next_node)
        prev_idx == (node_idx + num_nodes - 1) % num_nodes
    IN  VSub(elastic_force_to_next_node[node_idx], elastic_force_to_next_node[prev_idx])

\* a contribution that overwrites what the node has accumulated
SetAppliedForce(applied, force) == force

\* Node::AddAppliedForceContribution
AddAppliedForceContribution(applied, force) == VAdd(applied, force)

\* the places (element, local index) at which node g occurs
PlacesOfNode(g) == {p \in Elements \X (0 .. Cardinality(Nodes)) :
                        p[2] < GetNumNodes(p[1]) /\ GetNode(p[1], p[2]) = g}

RECURSIVE AddContributions(_, _, _)
\* the accumulator `applied` after the contributions of the places in S, given
\* every element's elastic_force_to_next_node
AddContributions(applied, elastic, S) ==
    IF S = {} THEN applied
    ELSE LET p == CHOOSE q \in S : TRUE
         IN  AddContributions(
                 AddAppliedForceContribution(applied, AggregateForce(elastic[p[1]], p[2])),
                 elastic, S \ {p})

\* every element's elastic_force_to_next_node
ElasticForces == [e \in Elements |-> ElasticForceToNextNode(e)]

RECURSIVE SurfaceForceOn(_, _)
\* the apical surface forces on node g from elements 0 .. e - 1, were they applied
SurfaceForceOn(g, e) ==
    IF e = 0 THEN ZeroVec
    ELSE LET r_corners == elemCornerNodes[e - 1]
             vec == GetVectorFromAtoB(nodeLocation[r_corners[1]], nodeLocation[r_corners[2]])
             apical_force == VScale(mSpringConstant, <<Whole(vec[1]), Whole(vec[2])>>)
             here == IF Len(r_corners) # 4 \/ e - 1 = membraneIndex THEN ZeroVec
                     ELSE IF g = r_corners[1] THEN apical_force
                     ELSE IF g = r_corners[2] THEN VSub(ZeroVec, apical_force)
                     ELSE ZeroVec
         IN  VAdd(here, SurfaceForceOn(g, e - 1))

\* a loop that also applies the apical surface forces
AppliedForceWithSurfaceForces(elastic) ==
    [g \in Nodes |->
        VAdd(AddContributions(nodeAppliedForce[g], elastic, PlacesOfNode(g)),
             SurfaceForceOn(g, NumElements))]

\* the accumulators after the loop over all elements
AppliedForceAfterLoop(elastic) ==
    [g \in Nodes |-> AddContributions(nodeAppliedForce[g], elastic, PlacesOfNode(g))]

\* --------------------------------------------------------- one-time set-up
\* a check of every other element's corner count against 4, not element 0's count
CornerCountsDifferFromFour ==
    \E e \in 1 .. (NumElements - 1) : Len(elemCornerNodes[e]) # 4

\* a check that also rejects a common corner count that is neither 0 nor 4
CornerCountsDifferOrOdd ==
    \/ \E e \in 1 .. (NumElements - 1) : Len(elemCornerNodes[0]) # Len(elemCornerNodes[e])
    \/ Len(elemCornerNodes[0]) \notin {0, 4}

\* some element's corner count differs from element 0's
CornerCountsDiffer ==
    \E e \in 1 .. (NumElements - 1) : Len(elemCornerNodes[0]) # Len(elemCornerNodes[e])

\* a check whose loop stops one element early
AttributeCountsDifferButLast ==
    \E e \in 1 .. (NumElements - 2) : Len(elemAttributes[0]) # Len(elemAttributes[e])

\* some element's attribute count differs from element 0's
AttributeCountsDiffer ==
    \E e \in 1 .. (NumElements - 1) : Len(elemAttributes[0]) # Len(elemAttributes[e])

\* local index in element e of the node with index g, a node of e
GetNodeLocalIndex(e, g) == CHOOSE i \in LocalIndices(e) : GetNode(e, i) = g

\* a tagging whose apical and basal ranges stop before their last corner
RegionWithoutLastCorner(e, j, old) ==
    IF membraneIndex = e THEN msBas
    ELSE LET r_corners == elemCornerNodes[e]
             change_1 == GetNodeLocalIndex(e, r_corners[2])
             change_2 == GetNodeLocalIndex(e, r_corners[1])
             change_3 == GetNodeLocalIndex(e, r_corners[4])
             change_4 == GetNodeLocalIndex(e, r_corners[3])
         IN  IF change_4 <= j THEN msLat
             ELSE IF change_3 <= j /\ j < change_4 THEN msBas
             ELSE IF change_2 <= j /\ j < change_3 THEN msLat
             ELSE IF change_1 <= j /\ j < change_2 THEN msApi
             ELSE IF j < change_1 THEN msLat
             ELSE old

\* a tagging that takes the corners in the order left, right on both sides
RegionFromLeftToRight(e, j, old) ==
    IF membraneIndex = e THEN msBas
    ELSE LET r_corners == elemCornerNodes[e]
             change_1 == GetNodeLocalIndex(e, r_corners[1])
             change_2 == GetNodeLocalIndex(e, r_corners[2]) + 1
             change_3 == GetNodeLocalIndex(e, r_corners[3])
             change_4 == GetNodeLocalIndex(e, r_corners[4]) + 1
         IN  IF change_4 <= j THEN msLat
             ELSE IF change_3 <= j /\ j < change_4 THEN msBas
             ELSE IF change_2 <= j /\ j < change_3 THEN msLat
             ELSE IF change_1 <= j /\ j < change_2 THEN msApi
             ELSE IF j < change_1 THEN msLat
             ELSE old

\* a tagging whose last lateral range starts one node late
RegionSkippingAfterBasal(e, j, old) ==
    IF membraneIndex = e THEN msBas
    ELSE LET r_corners == elemCornerNodes[e]
             change_1 == GetNodeLocalIndex(e, r_corners[2])
             change_2 == GetNodeLocalIndex(e, r_corners[1]) + 1
             change_3 == GetNodeLocalIndex(e, r_corners[4])
             change_4 == GetNodeLocalIndex(e, r_corners[3]) + 1
         IN  IF change_4 < j THEN msLat
             ELSE IF change_3 <= j /\ j < change_4 THEN msBas
             ELSE IF change_2 <= j /\ j < change_3 THEN msLat
             ELSE IF change_1 <= j /\ j < change_2 THEN msApi
             ELSE IF j < change_1 THEN msLat
             ELSE old

\* a tagging that treats the basement lamina as any other element
RegionIgnoringMembrane(e, j, old) ==
    LET r_corners == elemCornerNodes[e]
        change_1 == GetNodeLocalIndex(e, r_corners[2])
        change_2 == GetNodeLocalIndex(e, r_corners[1]) + 1
        change_3 == GetNodeLocalIndex(e, r_corners[4])
        change_4 == GetNodeLocalIndex(e, r_corners[3]) + 1
    IN  IF change_4 <= j THEN msLat
        ELSE IF change_3 <= j /\ j < change_4 THEN msBas
        ELSE IF change_2 <= j /\ j < change_3 THEN msLat
        ELSE IF change_1 <= j /\ j < change_2 THEN msApi
        ELSE IF j < change_1 THEN msLat
        ELSE old

\* region of local node j of element e after TagNodeRegions has visited e;
\* the five loops run in order, so the last loop whose range holds j decides
RegionInElement(e, j, old) ==
    IF membraneIndex = e THEN msBas
    ELSE LET r_corners == elemCornerNodes[e]
             change_1 == GetNodeLocalIndex(e, r_corners[2])
             change_2 == GetNodeLocalIndex(e, r_corners[1]) + 1
             change_3 == GetNodeLocalIndex(e, r_corners[4])
             change_4 == GetNodeLocalIndex(e, r_corners[3]) + 1
         IN  IF change_4 <= j THEN msLat
             ELSE IF change_3 <= j /\ j < change_4 THEN msBas
             ELSE IF change_2 <= j /\ j < change_3 THEN msLat
             ELSE IF change_1 <= j /\ j < change_2 THEN msApi
             ELSE IF j < change_1 THEN msLat
             ELSE old

\* the node regions after TagNodeRegions (elements are visited in index order)
TagNodeRegions ==
    [g \in Nodes |->
        LET P == PlacesOfNode(g)
        IN  IF P = {} THEN nodeRegion[g]
            ELSE LET p == CHOOSE q \in P : \A o \in P : o[1] <= q[1]
                 IN  RegionInElement(p[1], p[2], nodeRegion[g])]

\* lengths taken from the other component of the displacement
TagApicalAndBasalHeights ==
    [e \in Elements |->
        IF e = membraneIndex
        THEN elemAttributes[e] \o <<Zero, Zero>>
        ELSE LET half_way == GetNumNodes(e) \div 2
                 elem_width == Abs(GetVectorFromAtoB(GetNodeLocation(e, 0),
                                                     GetNodeLocation(e, half_way))[2])
             IN  elemAttributes[e] \o <<Whole(elem_width), Whole(elem_width)>>]

\* the element attributes after TagApicalAndBasalLengths
TagApicalAndBasalLengths ==
    [e \in Elements |->
        IF e = membraneIndex
        THEN elemAttributes[e] \o <<Zero, Zero>>
        ELSE LET half_way == GetNumNodes(e) \div 2
                 elem_width == Abs(GetVectorFromAtoB(GetNodeLocation(e, 0),
                                                     GetNodeLocation(e, half_way))[1])
             IN  elemAttributes[e] \o <<Whole(elem_width), Whole(elem_width)>>]

\* mReferenceLocationInAttributesVector has been assigned: the force object
\* in use has made a first call on elements that had 4 corners each
AttributeLocationAssigned == lastCall.object = forceObject /\ lastCall.cornered

\* the values a getter may read from mReferenceLocationInAttributesVector:
\* any value at all while the member has not been assigned
AttributeLocationsRead ==
    IF AttributeLocationAssigned THEN {mReferenceLocationInAttributesVector}
    ELSE 0 .. MaxGarbage

\* the assertions of GetApicalLengthForElement and GetBasalLengthForElement
\* hold for element elemIndex when the member is read as attribute_location
GetterAssertionsHold(elemIndex, attribute_location) ==
    /\ mpMesh # NULL
    /\ attribute_location < Len(elemAttributes[elemIndex])
    /\ attribute_location + 1 < Len(elemAttributes[elemIndex])

\* the width of element elemIndex as it is now
WidthOfElement(elemIndex) ==
    IF elemIndex = membraneIndex THEN Zero
    ELSE Whole(Abs(GetVectorFromAtoB(GetNodeLocation(elemIndex, 0),
                                     GetNodeLocation(elemIndex, GetNumNodes(elemIndex) \div 2))[1]))

\* an apical length computed anew at every request
ApicalLengthRecomputed(elemIndex) == WidthOfElement(elemIndex)

\* GetApicalLengthForElement(elemIndex), the mesh bound and the attribute there
GetApicalLengthForElement(elemIndex) ==
    LET attribute_location == mReferenceLocationInAttributesVector
    IN  elemAttributes[elemIndex][attribute_location + 1]    \* sequences count from 1

\* GetBasalLengthForElement(elemIndex), the mesh bound and the attribute there
GetBasalLengthForElement(elemIndex) ==
    LET attribute_location == mReferenceLocationInAttributesVector + 1
    IN  elemAttributes[elemIndex][attribute_location + 1]

\* ------------------------------------------------------------- force calls
NoCall ==
    [result |-> "none", object |-> 0, setup |-> FALSE, before |-> <<>>, after |-> <<>>,
     elastic |-> <<>>, location |-> <<>>, corners |-> <<>>, attributes |-> <<>>,
     springConstant |-> Zero, restLengthMultiplier |-> Zero,
     population |-> 0, mesh |-> NULL, regions |-> <<>>, tagged |-> FALSE,
     calls |-> 0, failures |-> 0, taggings |-> 0, base |-> <<>>, baseline |-> <<>>,
     tags |-> <<>>, cornered |-> FALSE]

\* the record of a force call that ends with `result`: what the call saw, what
\* it did, and what the force object has done since its construction
CallRecord(result, wasUnbound, elastic, after, population, tagging) ==
    LET own == lastCall.object = forceObject   \* the object has made calls before
    IN  [result |-> result, object |-> forceObject, setup |-> wasUnbound,
         before |-> nodeAppliedForce, after |-> after, elastic |-> elastic,
         location |-> nodeLocation, corners |-> elemCornerNodes,
         attributes |-> elemAttributes,
         springConstant |-> mSpringConstant, restLengthMultiplier |-> mRestLengthMultiplier,
         population |-> population,
         mesh |-> IF wasUnbound THEN populationMesh[population] ELSE mpMesh,
         regions |-> nodeRegion,
         tagged |-> tagging,
         calls |-> IF own THEN lastCall.calls + 1 ELSE 1,
         failures |-> (IF own THEN lastCall.failures ELSE 0) + (IF result = "ok" THEN 0 ELSE 1),
         taggings |-> (IF own THEN lastCall.taggings ELSE 0) + (IF tagging THEN 1 ELSE 0),
         base |-> IF own THEN lastCall.base ELSE [e \in Elements |-> Len(elemAttributes[e])],
         baseline |-> IF tagging THEN TagApicalAndBasalLengths
                      ELSE IF own THEN lastCall.baseline ELSE <<>>,
         tags |-> IF tagging THEN TagNodeRegions
                  ELSE IF own THEN lastCall.tags ELSE <<>>,
         cornered |-> IF own THEN lastCall.cornered
                      ELSE \A e \in Elements : Len(elemCornerNodes[e]) = 4]

\* mElementsHaveCorners, from element 0's corner count
ElementsHaveCorners(num_corners) == num_corners = 4

\* an attribute check made whatever the corner count
AttributeCheckAlways(num_corners) == AttributeCountsDiffer

\* the attribute counts are verified, and differ
AttributeCheckFails(num_corners) == ElementsHaveCorners(num_corners) /\ AttributeCountsDiffer

\* a force loop that the call doing the set-up does not reach
ForceLoopSkipsSetupCall(result, unbound) == result = "ok" /\ ~unbound

\* a force loop that a failed validation does not keep from running
ForceLoopAlwaysRuns(result, unbound) == TRUE

\* a force loop inside the block for elements with corners
ForceLoopNeedsCorners(result, unbound) ==
    result = "ok" /\ (unbound => Len(elemCornerNodes[0]) = 4)

\* the force loop runs in every call that no exception has left
ForceLoopRuns(result, unbound) == result = "ok"

\* a set-up repeated in every call
SetupEveryCall == TRUE

\* a set-up guarded by the wrong member: repeated while the elements have corners
SetupWhileCornered == mpMesh = NULL \/ mElementsHaveCorners = TRUE

\* no mesh is bound yet: this call does the one-time set-up
SetupNeeded == mpMesh = NULL

\* the population each force object is applied to first
FirstPopulation == 1

\* AddImmersedBoundaryForceContribution(rNodePairs, rCellPopulation): the
\* one-time set-up when no mesh is bound yet, then the spring forces on the
\* elements of the bound mesh.  The mesh variables describe the mesh of the
\* first population, so that is the mesh the set-up binds.
AddImmersedBoundaryForceContribution(population) ==
    LET unbound == SetupNeeded
        num_corners == Len(elemCornerNodes[0])
        cornerException == unbound /\ CornerCountsDiffer
        cornersSet == unbound /\ ~cornerException
        attributeException == cornersSet /\ AttributeCheckFails(num_corners)
        tagging == cornersSet /\ ElementsHaveCorners(num_corners) /\ ~attributeException
        result == IF cornerException THEN "corner exception"
                  ELSE IF attributeException THEN "attribute exception"
                  ELSE "ok"
        loop == ForceLoopRuns(result, unbound)
        elastic == IF loop THEN ElasticForces ELSE <<>>
        after == IF loop THEN AppliedForceAfterLoop(elastic) ELSE nodeAppliedForce
    IN  /\ numCalls < MaxCalls
        /\ mpMesh = NULL => population = FirstPopulation
        /\ numCalls' = numCalls + 1
        /\ UNCHANGED driver
        /\ mpMesh' = IF unbound THEN populationMesh[FirstPopulation] ELSE mpMesh
        /\ mElementsHaveCorners' =
               IF cornersSet THEN ElementsHaveCorners(num_corners) ELSE mElementsHaveCorners
        /\ mReferenceLocationInAttributesVector' =
               IF cornersSet /\ ElementsHaveCorners(num_corners)
               THEN Len(elemAttributes[0])
               ELSE mReferenceLocationInAttributesVector
        /\ nodeRegion' = IF tagging THEN TagNodeRegions ELSE nodeRegion
        /\ elemAttributes' = IF tagging THEN TagApicalAndBasalLengths ELSE elemAttributes
        /\ nodeAppliedForce' = after
        /\ prevCall' = lastCall
        /\ lastCall' = CallRecord(result, unbound, elastic, after, population, tagging)
        /\ UNCHANGED <<nodeLocation, elemNodes, elemCornerNodes, membraneIndex, intrinsicSpacing,
                       populationMesh, forceObject, mSpringConstant, mRestLengthMultiplier,
                       mBasementSpringConstantModifier, mBasementRestLengthModifier,
                       numEnvSteps>>

\* the constructor: a new force object takes the place of the one in use
Construct ==
    /\ numEnvSteps < MaxEnvSteps
    /\ numEnvSteps' = numEnvSteps + 1
    /\ UNCHANGED driver
    /\ forceObject' = forceObject + 1
    /\ mpMesh' = NULL
    /\ mElementsHaveCorners' = Uninitialised
    /\ mReferenceLocationInAttributesVector' = Uninitialised
    /\ mSpringConstant' = Whole(DefaultSpringConstant)
    /\ mRestLengthMultiplier' = Rat(1, 2)
    /\ mBasementSpringConstantModifier' = Whole(DefaultBasementSpringConstantModifier)
    /\ mBasementRestLengthModifier' = Rat(1, 2)
    /\ UNCHANGED <<meshVars, lastCall, prevCall, numCalls>>

SpringConstantsSet == {Whole(2)}
RestLengthMultipliersSet == {Whole(1), Whole(2)}

SetSpringConstant ==
    /\ numEnvSteps < MaxEnvSteps
    /\ numEnvSteps' = numEnvSteps + 1
    /\ UNCHANGED driver
    /\ \E springConstant \in SpringConstantsSet :
          /\ springConstant # mSpringConstant
          /\ mSpringConstant' = springConstant
    /\ UNCHANGED <<meshVars, forceObject, mpMesh, mElementsHaveCorners,
                   mReferenceLocationInAttributesVector, mRestLengthMultiplier,
                   mBasementSpringConstantModifier, mBasementRestLengthModifier,
                   lastCall, prevCall, numCalls>>

SetRestLengthMultiplier ==
    /\ numEnvSteps < MaxEnvSteps
    /\ numEnvSteps' = numEnvSteps + 1
    /\ UNCHANGED driver
    /\ \E restLengthMultiplier \in RestLengthMultipliersSet :
          /\ restLengthMultiplier # mRestLengthMultiplier
          /\ mRestLengthMultiplier' = restLengthMultiplier
    /\ UNCHANGED <<meshVars, forceObject, mpMesh, mElementsHaveCorners,
                   mReferenceLocationInAttributesVector, mSpringConstant,
                   mBasementSpringConstantModifier, mBasementRestLengthModifier,
                   lastCall, prevCall, numCalls>>

\* ------------------------------------------- the surrounding simulation
\* every cyclically adjacent pair of every element is at a whole-number distance
WholeDistances(location, nodes) ==
    \A e \in Elements : \A i \in 1 .. Len(nodes[e]) :
        IsSquare(NormSquared(GetVectorFromAtoB(location[nodes[e][i]],
                                               location[nodes[e][(i % Len(nodes[e])) + 1]])))

\* the simulation resets every node's accumulator at the start of a timestep
ClearAppliedForce ==
    /\ numEnvSteps < MaxEnvSteps
    /\ numEnvSteps' = numEnvSteps + 1
    /\ UNCHANGED driver
    /\ \E g \in Nodes : nodeAppliedForce[g] # ZeroVec
    /\ nodeAppliedForce' = [g \in Nodes |-> ZeroVec]
    /\ UNCHANGED <<nodeLocation, nodeRegion, elemNodes, elemCornerNodes, elemAttributes,
                   membraneIndex, intrinsicSpacing, populationMesh, forceVars, lastCall, prevCall,
                   numCalls>>

OtherForce == <<Whole(3), Rat(-1, 2)>>

\* another force law adds its contribution to a node's accumulator
OtherForceContribution ==
    /\ numEnvSteps < MaxEnvSteps
    /\ numEnvSteps' = numEnvSteps + 1
    /\ UNCHANGED driver
    /\ nodeAppliedForce' = [nodeAppliedForce EXCEPT
                               ![0] = AddAppliedForceContribution(nodeAppliedForce[0], OtherForce)]
    /\ UNCHANGED <<nodeLocation, nodeRegion, elemNodes, elemCornerNodes, elemAttributes,
                   membraneIndex, intrinsicSpacing, populationMesh, forceVars, lastCall, prevCall,
                   numCalls>>

UnitSteps == {<<1, 0>>, <<0, 1>>}

\* the fluid carries the node half way round an element one grid step along
MoveNode ==
    /\ numEnvSteps < MaxEnvSteps
    /\ numEnvSteps' = numEnvSteps + 1
    /\ UNCHANGED driver
    /\ \E e \in Elements, step \in UnitSteps :
          LET g == GetNode(e, GetNumNodes(e) \div 2)
              moved == [nodeLocation EXCEPT
                           ![g] = <<(nodeLocation[g][1] + step[1]) % GridSize,
                                    (nodeLocation[g][2] + step[2]) % GridSize>>]
          IN  /\ WholeDistances(moved, elemNodes)
              /\ nodeLocation' = moved
    /\ UNCHANGED <<nodeAppliedForce, nodeRegion, elemNodes, elemCornerNodes, elemAttributes,
                   membraneIndex, intrinsicSpacing, populationMesh, forceVars, lastCall, prevCall,
                   numCalls>>

\* the corner tags of every element are dropped
ClearCornerNodes ==
    /\ numEnvSteps < MaxEnvSteps
    /\ numEnvSteps' = numEnvSteps + 1
    /\ UNCHANGED driver
    /\ \E e \in Elements : elemCornerNodes[e] # <<>>
    /\ elemCornerNodes' = [e \in Elements |-> <<>>]
    /\ UNCHANGED <<nodeLocation, nodeAppliedForce, nodeRegion, elemNodes, elemAttributes,
                   membraneIndex, intrinsicSpacing, populationMesh, forceVars, lastCall, prevCall,
                   numCalls>>

\* --------------------------------------------------------- the sweep driver
\* main before its first statement
MainNotStarted ==
    [pc |-> 0, solving |-> 0, help |-> FALSE, simulation_id |-> 0, spring_const |-> 0,
     trace |-> <<>>, simulationTime |-> "none", seed |-> <<>>, directory |-> <<>>,
     results |-> <<>>, output |-> <<>>, returned |-> FALSE, status |-> 0]

\* a main that prints the completion message before it destroys the singletons
MainSequenceOutputFirst ==
    <<"SetupSingletons", "SetupAndRunSimulation", "OutputOnCompletion", "DestroySingletons">>

\* the four calls of main, in the order of its statements
MainSequence ==
    <<"SetupSingletons", "SetupAndRunSimulation", "DestroySingletons", "OutputOnCompletion">>

\* main is at its call of the function `name`
MainAt(name) ==
    /\ driver.pc \in 1 .. Len(MainSequence)
    /\ MainSequence[driver.pc] = name
    /\ ~driver.returned

\* the function `name` returns to main, which returns after the last call
ReturnToMain(d) ==
    [d EXCEPT !.pc = d.pc + 1,
              !.returned = (d.pc = Len(MainSequence)),
              !.status = 0]

\* main up to its first call: the command line is parsed; with --help the
\* options are printed and main returns 1
Main ==
    /\ driver.pc = 0 /\ ~driver.returned
    /\ \E help \in BOOLEAN, ID \in 0 .. MaxId, K \in 0 .. MaxK :
          driver' = IF help
                    THEN [driver EXCEPT !.help = TRUE, !.returned = TRUE, !.status = 1]
                    ELSE [driver EXCEPT !.pc = 1, !.simulation_id = ID, !.spring_const = K]
    /\ UNCHANGED <<meshVars, forceVars, lastCall, prevCall, numCalls, numEnvSteps>>

SetupSingletons ==
    /\ MainAt("SetupSingletons")
    /\ driver' = ReturnToMain([driver EXCEPT !.trace = Append(@, "SetupSingletons"),
                                             !.simulationTime = "started",
                                             !.seed = <<driver.simulation_id>>])
    /\ UNCHANGED <<meshVars, forceVars, lastCall, prevCall, numCalls, numEnvSteps>>

\* SetupAndRunSimulation up to the first simulator.Solve(): the mesh, the
\* population and the force laws are built and the output directory is named
SetupAndRunSimulation ==
    /\ MainAt("SetupAndRunSimulation") /\ driver.solving = 0
    /\ driver' = [driver EXCEPT !.trace = Append(@, "SetupAndRunSimulation"),
                                !.solving = 1,
                                !.directory = <<driver.spring_const, driver.simulation_id>>]
    /\ UNCHANGED <<meshVars, forceVars, lastCall, prevCall, numCalls, numEnvSteps>>

\* a step of simulator.Solve(): the accumulators are reset or the force law
\* is applied to the population
Solve ==
    /\ MainAt("SetupAndRunSimulation") /\ driver.solving \in {1, 2}
    /\ \/ ClearAppliedForce
       \/ AddImmersedBoundaryForceContribution(FirstPopulation)

\* between the two calls of Solve the heights of the cells above the lamina
\* are scaled by a factor drawn from (0.9, 1.1]; the heights stay on the grid
\* for the factor 1 only, which is the draw taken here
Kick ==
    /\ MainAt("SetupAndRunSimulation") /\ driver.solving = 1
    /\ driver' = [driver EXCEPT !.solving = 2]
    /\ UNCHANGED <<meshVars, forceVars, lastCall, prevCall, numCalls, numEnvSteps>>

\* after the second Solve the summary statistics are written to results.dat
\* (fp_spring_const = 0.01 * K * 1e4) and SetupAndRunSimulation returns
SimulationReturns ==
    /\ MainAt("SetupAndRunSimulation") /\ driver.solving = 2
    /\ driver' = ReturnToMain([driver EXCEPT !.solving = 0,
                                             !.results = <<100 * driver.spring_const>>])
    /\ UNCHANGED <<meshVars, forceVars, lastCall, prevCall, numCalls, numEnvSteps>>

DestroySingletons ==
    /\ MainAt("DestroySingletons")
    /\ driver' = ReturnToMain([driver EXCEPT !.trace = Append(@, "DestroySingletons"),
                                             !.simulationTime = "destroyed",
                                             !.seed = <<>>])
    /\ UNCHANGED <<meshVars, forceVars, lastCall, prevCall, numCalls, numEnvSteps>>

OutputOnCompletion ==
    /\ MainAt("OutputOnCompletion")
    /\ driver' = ReturnToMain([driver EXCEPT
                      !.trace = Append(@, "OutputOnCompletion"),
                      !.output = Append(@, [springConst |-> driver.spring_const,
                                            ID |-> driver.simulation_id,
                                            simulationTime |-> driver.simulationTime])])
    /\ UNCHANGED <<meshVars, forceVars, lastCall, prevCall, numCalls, numEnvSteps>>

\* ----------------------------------------------------------- initial meshes
\* the rings of n nodes that start at the origin and lie along the x axis
RingsOf(n) ==
    {r \in [1 .. n -> Grid] : r[1] = <<0, 0>> /\ \A i \in 1 .. n : r[i][2] = 0}

\* the square of side 2 grid units
Square == <<(<<0, 0>>), (<<2, 0>>), (<<2, 2>>), (<<0, 2>>)>>
Rings == RingsOf(1) \cup RingsOf(2) \cup RingsOf(3) \cup {Square}

\* k corner tags on the nodes first .. first + n - 1 of a ring: the nodes at
\* local indices 0, 1, 2, ... in turn, starting again at 0 after the last node
CornersAt(first, n, k) == [j \in 1 .. k |-> first + ((j - 1) % n)]

OnePopulation == [population \in {FirstPopulation} |-> "mesh"]
TwoPopulations == [population \in {FirstPopulation, FirstPopulation + 1} |->
                      IF population = FirstPopulation THEN "mesh" ELSE "other mesh"]

\* the state after the mesh with rings r0 and r1 is generated, its elements
\* carrying the corner tags corners0 and corners1 and a0 and a1 attributes,
\* and the force object is constructed
InitMesh(r0, r1, corners0, corners1, a0, a1, membrane, spacing, populations) ==
    LET n0 == Len(r0)
        n1 == Len(r1)
    IN  /\ nodeLocation = [g \in 0 .. (n0 + n1 - 1) |-> IF g < n0 THEN r0[g + 1] ELSE r1[g - n0 + 1]]
        /\ nodeAppliedForce = [g \in 0 .. (n0 + n1 - 1) |-> ZeroVec]
        /\ nodeRegion = [g \in 0 .. (n0 + n1 - 1) |-> Untagged]
        /\ elemNodes = [e \in Elements |-> IF e = 0 THEN [i \in 1 .. n0 |-> i - 1]
                                           ELSE [i \in 1 .. n1 |-> n0 + i - 1]]
        /\ elemCornerNodes = [e \in Elements |-> IF e = 0 THEN corners0 ELSE corners1]
        /\ elemAttributes = [e \in Elements |-> [j \in 1 .. (IF e = 0 THEN a0 ELSE a1) |-> Whole(7)]]
        /\ membraneIndex = membrane
        /\ intrinsicSpacing = spacing
        /\ populationMesh = populations
        /\ forceObject = 1
        /\ mpMesh = NULL
        /\ mElementsHaveCorners = Uninitialised
        /\ mReferenceLocationInAttributesVector = Uninitialised
        /\ mSpringConstant = Whole(DefaultSpringConstant)
        /\ mRestLengthMultiplier = Rat(1, 2)
        /\ mBasementSpringConstantModifier = Whole(DefaultBasementSpringConstantModifier)
        /\ mBasementRestLengthModifier = Rat(1, 2)
        /\ lastCall = NoCall
        /\ prevCall = NoCall
        /\ numCalls = 0
        /\ numEnvSteps = 0
        /\ driver = MainNotStarted

\* the same with c0 and c1 corner tags on the first nodes of the elements, in
\* a simulation with one population
InitWith(r0, r1, c0, c1, a0, a1, membrane, spacing) ==
    InitMesh(r0, r1, CornersAt(0, Len(r0), c0), CornersAt(Len(r0), Len(r1), c1),
             a0, a1, membrane, spacing, OnePopulation)

\* meshes of many shapes whose elements agree on corner and attribute counts
Init ==
    \E r \in Rings, c \in {0, 4}, membrane \in {0, NoMembrane} :
        InitWith(r, r, c, c, 0, 0, membrane, Whole(2))

\* force calls, the setters, and the accumulators' other users
Next ==
    \/ \E population \in DOMAIN populationMesh : AddImmersedBoundaryForceContribution(population)
    \/ SetSpringConstant
    \/ SetRestLengthMultiplier
    \/ ClearAppliedForce
    \/ OtherForceContribution

Spec == Init /\ [][Next]_vars

\* meshes of one shape whose elements may disagree on corner and attribute counts
InitSetup ==
    \E c0 \in {0, 3, 4}, c1 \in {0, 3, 4}, a0 \in {0, 1}, a1 \in {0, 1},
       membrane \in {0, NoMembrane} :
        InitWith(Square, Square, c0, c1, a0, a1, membrane, Whole(2))

SpecSetup == InitSetup /\ [][Next]_vars

\* a few meshes, in a simulation that also moves nodes, re-tags corners and
\* replaces the force object
InitLifecycle ==
    \E r \in {Square, <<(<<0, 0>>), (<<1, 0>>), (<<3, 0>>)>>}, c \in {0, 4},
       membrane \in {0, NoMembrane} :
        InitWith(r, r, c, c, 0, 0, membrane, Whole(2))

NextLifecycle ==
    \/ Next
    \/ Construct
    \/ MoveNode
    \/ ClearCornerNodes

SpecLifecycle == InitLifecycle /\ [][NextLifecycle]_vars

\* the 12 nodes, one grid unit apart, on the boundary of a square of side 3
Ring12 == <<(<<0, 0>>), (<<1, 0>>), (<<2, 0>>), (<<3, 0>>), (<<3, 1>>), (<<3, 2>>),
            (<<3, 3>>), (<<2, 3>>), (<<1, 3>>), (<<0, 3>>), (<<0, 2>>), (<<0, 1>>)>>

\* corner tags of the 12-node element: the nodes 2, 5, 8, 11 in any order
CornerPlacements12 ==
    {q \in [1 .. 4 -> {2, 5, 8, 11}] : \A i, j \in 1 .. 4 : q[i] = q[j] => i = j}

\* corner tags of the 4-node element: any four of its nodes, repeats included
CornerPlacements4 == [1 .. 4 -> 0 .. 3]

\* a 12-node and a 4-node element with 4 corner tags each, placed in many
\* ways on one of the two elements; either may be the basement lamina
InitTagging ==
    \E q0 \in CornerPlacements12, q1 \in CornerPlacements4,
       membrane \in {0, 1, NoMembrane} :
        /\ q0 = <<5, 2, 11, 8>> \/ q1 = <<1, 0, 3, 2>>
        /\ InitMesh(Ring12, Square, q0, [j \in 1 .. 4 |-> Len(Ring12) + q1[j]],
                    0, 0, membrane, Whole(2), OnePopulation)

NextTagging ==
    \/ \E population \in DOMAIN populationMesh : AddImmersedBoundaryForceContribution(population)
    \/ ClearAppliedForce

SpecTagging == InitTagging /\ [][NextTagging]_vars

\* the sweep driver on the mesh of a basement lamina and one cell
InitDriver == InitWith(Square, Square, 4, 4, 0, 0, 0, Whole(2))

NextDriver ==
    \/ Main
    \/ SetupSingletons
    \/ SetupAndRunSimulation
    \/ Solve
    \/ Kick
    \/ SimulationReturns
    \/ DestroySingletons
    \/ OutputOnCompletion

SpecDriver == InitDriver /\ [][NextDriver]_vars

\* a simulation with two populations over two meshes; the force object is
\* applied to the first population first, and to either of them afterwards
InitPopulations ==
    \E r \in {Square, <<(<<0, 0>>), (<<1, 0>>), (<<3, 0>>)>>}, c \in {0, 4},
       membrane \in {0, NoMembrane} :
        InitMesh(r, r, CornersAt(0, Len(r), c), CornersAt(Len(r), Len(r), c),
                 0, 0, membrane, Whole(2), TwoPopulations)

SpecPopulations == InitPopulations /\ [][Next]_vars

\* ------------------------------------------------------------------ claims
CallOk == lastCall.result = "ok"

\* positions and configuration scalars still are what the last call saw
AsLastCallSawIt ==
    /\ nodeLocation = lastCall.location
    /\ mSpringConstant = lastCall.springConstant
    /\ mRestLengthMultiplier = lastCall.restLengthMultiplier

Finite(v) == ~IsNaN(v[1]) /\ ~IsNaN(v[2])

\* displacement from local node i of element e to the next node of the ring
Displacement(e, i) ==
    GetVectorFromAtoB(GetNodeLocation(e, i), GetNodeLocation(e, (i + 1) % GetNumNodes(e)))

\* spring_constant * (d - rest_length) / d times the displacement v, d = |v| > 0
HookeForce(spring_constant, rest_length, v) ==
    LET d == Whole(norm_2(v))
    IN  VScale(RMul(RMul(spring_constant, RSub(d, rest_length)), Rat(d[2], d[1])),
               <<Whole(v[1]), Whole(v[2])>>)

\* base spring constant * intrinsic_spacing^2 / spacing_ratio^2
NormalisedSpringConstant(e) ==
    LET s == GetAverageNodeSpacingOfElement(e)
    IN  RMul(mSpringConstant,
             RMul(RDiv(intrinsicSpacing, s), RDiv(intrinsicSpacing, s)))

\* rest-length multiplier * spacing_ratio
NormalisedRestLength(e) == RMul(mRestLengthMultiplier, GetAverageNodeSpacingOfElement(e))

\* C1: after a force call, every node's accumulator is its value before the
\* call plus segment-force(i) - segment-force((i-1) mod n), i its local index
\* in its element of n nodes: what was accumulated before is kept.
C1_ForceAddedToAccumulator ==
    CallOk =>
        \A e \in Elements : \A i \in LocalIndices(e) :
            LET segment == lastCall.elastic[e]
                g == GetNode(e, i)
            IN  lastCall.after[g] =
                    VAdd(lastCall.before[g],
                         VSub(segment[i], segment[(i - 1) % GetNumNodes(e)]))

\* a call has added a non-zero force to a node that already carried one
C1_Witness ==
    /\ CallOk
    /\ \E g \in Nodes :
          /\ lastCall.before[g] # ZeroVec
          /\ Finite(lastCall.after[g])
          /\ lastCall.after[g] # lastCall.before[g]

\* C2: in an element that is not the membrane, the segment force of a pair at
\* distance d > 0 is k * I^2 / s^2 * (d - r * s) / d times the displacement
\* (k base spring constant, I intrinsic spacing, s the element's average node
\* spacing, r rest-length multiplier); on a uniform ring with s = I it is
\* k * (s - r * s) along the unit vector to the next node.
C2_SegmentForce ==
    (CallOk /\ AsLastCallSawIt) =>
        \A e \in Elements \ {membraneIndex} : \A i \in LocalIndices(e) :
            LET v == Displacement(e, i)
                s == GetAverageNodeSpacingOfElement(e)
                uniform == \A j \in LocalIndices(e) : Whole(norm_2(Displacement(e, j))) = s
            IN  norm_2(v) > 0 =>
                  /\ lastCall.elastic[e][i] =
                         HookeForce(NormalisedSpringConstant(e), NormalisedRestLength(e), v)
                  /\ (uniform /\ s = intrinsicSpacing) =>
                         lastCall.elastic[e][i] =
                             VScale(RDiv(RMul(mSpringConstant,
                                              RSub(s, RMul(mRestLengthMultiplier, s))), s),
                                    <<Whole(v[1]), Whole(v[2])>>)

\* a call, with the spring constant set to 2, on an ordinary element whose
\* segments differ in length and whose average spacing is no whole number
C2_Witness ==
    /\ CallOk /\ AsLastCallSawIt
    /\ mSpringConstant = Whole(2)
    /\ \E e \in Elements \ {membraneIndex} :
          /\ \A i \in LocalIndices(e) : norm_2(Displacement(e, i)) > 0
          /\ \E i, j \in LocalIndices(e) :
                norm_2(Displacement(e, i)) # norm_2(Displacement(e, j))
          /\ GetAverageNodeSpacingOfElement(e)[2] # 1

\* C3: the membrane element's segment forces are those of a spring constant 5
\* times the ordinary one and a rest length half the ordinary one.
C3_MembraneModifiers ==
    (CallOk /\ AsLastCallSawIt /\ membraneIndex \in Elements) =>
        \A i \in LocalIndices(membraneIndex) :
            LET e == membraneIndex
                v == Displacement(e, i)
            IN  norm_2(v) > 0 =>
                    lastCall.elastic[e][i] =
                        HookeForce(RMul(Whole(5), NormalisedSpringConstant(e)),
                                   RMul(Rat(1, 2), NormalisedRestLength(e)), v)

\* the membrane and an ordinary element of the same geometry, with different
\* segment forces
C3_Witness ==
    /\ CallOk /\ AsLastCallSawIt /\ membraneIndex \in Elements
    /\ \E o \in Elements \ {membraneIndex} :
          /\ GetNumNodes(o) = GetNumNodes(membraneIndex)
          /\ \A i \in LocalIndices(o) : Displacement(o, i) = Displacement(membraneIndex, i)
          /\ \E i \in LocalIndices(o) :
                /\ norm_2(Displacement(o, i)) > 0
                /\ lastCall.elastic[o][i] # lastCall.elastic[membraneIndex][i]
                /\ lastCall.elastic[o][i] =
                       HookeForce(NormalisedSpringConstant(o), NormalisedRestLength(o),
                                  Displacement(o, i))

\* the rest length the claims give element e
ClaimedRestLength(e) ==
    IF e = membraneIndex
    THEN RMul(Rat(1, 2), NormalisedRestLength(e))
    ELSE NormalisedRestLength(e)

AllSegmentsAtRestLength(e) ==
    \A i \in LocalIndices(e) : Whole(norm_2(Displacement(e, i))) = ClaimedRestLength(e)

ElementUntouched(e) ==
    \A i \in LocalIndices(e) : lastCall.after[GetNode(e, i)] = lastCall.before[GetNode(e, i)]

\* C4 as claimed: a call leaves the accumulators of an element alone when
\* every segment of the element is exactly at the element's rest length.
C4_AsClaimed ==
    (CallOk /\ AsLastCallSawIt) =>
        \A e \in Elements : AllSegmentsAtRestLength(e) => ElementUntouched(e)

\* C4: a call leaves the accumulators of an element alone when every segment
\* of the element is exactly at the element's rest length and that length is
\* not zero.
C4_ZeroForceAtRest ==
    (CallOk /\ AsLastCallSawIt) =>
        \A e \in Elements :
            (AllSegmentsAtRestLength(e) /\ ClaimedRestLength(e) # Zero) => ElementUntouched(e)

\* a call on a mesh with an ordinary element at rest that carried a force already
C4_Witness ==
    /\ CallOk /\ AsLastCallSawIt
    /\ \E e \in Elements \ {membraneIndex} :
          /\ AllSegmentsAtRestLength(e) /\ ClaimedRestLength(e) # Zero
          /\ \E i \in LocalIndices(e) : lastCall.before[GetNode(e, i)] # ZeroVec

BothCallsOk == lastCall.result = "ok" /\ prevCall.result = "ok"

\* the last two calls saw the same positions and configuration scalars
SameInputs ==
    /\ lastCall.location = prevCall.location
    /\ lastCall.springConstant = prevCall.springConstant
    /\ lastCall.restLengthMultiplier = prevCall.restLengthMultiplier

AllZero(force) == \A g \in DOMAIN force : force[g] = ZeroVec

\* what a call added to each accumulator
Added(call) == [g \in DOMAIN call.after |-> VSub(call.after[g], call.before[g])]

\* C5: two successive calls on one force object, each starting from zeroed
\* accumulators, with the same positions and configuration scalars, leave the
\* same force on every node, also when the first of them did the set-up.
C5_Idempotent ==
    (/\ BothCallsOk /\ SameInputs
     /\ lastCall.object = prevCall.object
     /\ AllZero(prevCall.before) /\ AllZero(lastCall.before))
        => lastCall.after = prevCall.after

\* two such calls, the first doing the set-up of a mesh with corners, that
\* leave a force that is not zero
C5_Witness ==
    /\ BothCallsOk /\ SameInputs
    /\ lastCall.object = prevCall.object
    /\ AllZero(prevCall.before) /\ AllZero(lastCall.before)
    /\ prevCall.setup /\ Len(prevCall.corners[0]) = 4
    /\ \E g \in DOMAIN lastCall.after : Finite(lastCall.after[g]) /\ lastCall.after[g] # ZeroVec

\* C6: for the same positions and configuration scalars a call adds the same
\* force to every node, whatever the corner tags and the stored apical and
\* basal lengths: no surface force is applied.
C6_NoSurfaceForces == (BothCallsOk /\ SameInputs) => Added(lastCall) = Added(prevCall)

\* a call that set up a mesh with four corners an element, then one by a new
\* force object that set up the same mesh without corners
C6_Witness ==
    /\ BothCallsOk /\ SameInputs
    /\ prevCall.setup /\ lastCall.setup
    /\ \A e \in Elements : Len(prevCall.corners[e]) = 4 /\ Len(lastCall.corners[e]) = 0
    /\ lastCall.attributes # prevCall.attributes
    /\ \E g \in DOMAIN lastCall.after : Finite(Added(lastCall)[g]) /\ Added(lastCall)[g] # ZeroVec

\* some two elements have different numbers of the corners (attributes) in c
CountsDisagree(c) == \E e, f \in Elements : Len(c[e]) # Len(c[f])

\* the last call found no mesh bound: it is the one that validates the mesh
FirstCall == lastCall.setup

\* C7: a first call on a mesh whose elements disagree on the corner count
\* fails with the corner exception, never reaches the force loop and leaves
\* every accumulator as it was.
C7_CornerMismatchFails ==
    (FirstCall /\ CountsDisagree(lastCall.corners)) =>
        /\ lastCall.result = "corner exception"
        /\ lastCall.elastic = <<>>
        /\ lastCall.after = lastCall.before

\* a failed first call on a mesh with 4 corners on element 0, none on element 1
C7_Witness ==
    /\ FirstCall /\ lastCall.result = "corner exception"
    /\ Len(lastCall.corners[0]) = 4 /\ Len(lastCall.corners[1]) = 0
    /\ nodeAppliedForce = lastCall.before

CallStep == numCalls' = numCalls + 1

\* C8: a first call on a mesh of 4-corner elements that disagree on the
\* attribute count fails with the attribute exception and changes no region,
\* no attribute and no accumulator; when they agree, element 0's count
\* becomes the offset of the derived attributes.
C8_AttributeMismatchFails ==
    [][(CallStep /\ mpMesh = NULL /\ \A e \in Elements : Len(elemCornerNodes[e]) = 4) =>
          IF CountsDisagree(elemAttributes)
          THEN /\ lastCall'.result = "attribute exception"
               /\ nodeRegion' = nodeRegion
               /\ elemAttributes' = elemAttributes
               /\ nodeAppliedForce' = nodeAppliedForce
          ELSE /\ lastCall'.result = "ok"
               /\ mReferenceLocationInAttributesVector' = Len(elemAttributes[0])]_vars

\* a failed first call on a mesh of 4-corner elements, element 1 with an
\* attribute and element 0 without
C8_Witness ==
    /\ FirstCall /\ lastCall.result = "attribute exception"
    /\ \A e \in Elements : Len(lastCall.corners[e]) = 4
    /\ Len(lastCall.attributes[0]) = 0 /\ Len(lastCall.attributes[1]) = 1
    /\ \A g \in Nodes : nodeRegion[g] = Untagged

\* C9 as claimed: a first call on a mesh whose elements share a corner count
\* that is neither 0 nor 4 fails.
C9_AsClaimed ==
    (FirstCall /\ ~CountsDisagree(lastCall.corners) /\ Len(lastCall.corners[0]) \notin {0, 4})
        => lastCall.result # "ok"

\* C9: a first call fails with the corner exception exactly when the elements
\* disagree on the corner count; on a mesh whose elements share a corner count
\* that is neither 0 nor 4 it raises no exception and runs the force loop.
C9_CornerCountsMustAgree ==
    FirstCall =>
        /\ lastCall.result = "corner exception" <=> CountsDisagree(lastCall.corners)
        /\ (~CountsDisagree(lastCall.corners) /\ Len(lastCall.corners[0]) \notin {0, 4}) =>
               (lastCall.result = "ok" /\ lastCall.elastic # <<>>)

\* a first call that succeeded on a mesh whose elements have 3 corners each
C9_Witness ==
    /\ FirstCall /\ lastCall.result = "ok"
    /\ \A e \in Elements : Len(lastCall.corners[e]) = 3

\* C10 as claimed: a first call on a mesh whose elements agree on the corner
\* count, whatever it is, and disagree on the attribute count fails.
C10_AsClaimed ==
    (FirstCall /\ ~CountsDisagree(lastCall.corners) /\ CountsDisagree(lastCall.attributes))
        => lastCall.result # "ok"

\* C10: a first call on a mesh whose elements agree on the corner count fails
\* with the attribute exception exactly when that count is 4 and the elements
\* disagree on the attribute count, and then adds no force.
C10_AttributeCheckNeedsCorners ==
    (FirstCall /\ ~CountsDisagree(lastCall.corners)) =>
        /\ lastCall.result = "attribute exception" <=>
               (Len(lastCall.corners[0]) = 4 /\ CountsDisagree(lastCall.attributes))
        /\ lastCall.result = "attribute exception" => lastCall.after = lastCall.before

\* a first call that succeeded on a mesh without corners whose elements
\* disagree on the attribute count
C10_Witness ==
    /\ FirstCall /\ lastCall.result = "ok"
    /\ CountsDisagree(lastCall.attributes)
    /\ \A e \in Elements : Len(lastCall.corners[e]) = 0

\* every call the force object of the last call has made succeeded, and the
\* mesh had 4 corners an element at the first of them
SuccessfulCallsOnCorneredMesh ==
    lastCall.calls >= 1 /\ lastCall.failures = 0 /\ lastCall.cornered

\* C11: over the successful calls of one force object on a mesh with 4
\* corners an element, only the first tags regions and appends lengths: one
\* call in all did so, and every element, the membrane too, has 2 attributes
\* more than before the first call.
C11_SetupOnce ==
    SuccessfulCallsOnCorneredMesh =>
        /\ lastCall.taggings = 1
        /\ lastCall.calls > 1 => ~lastCall.tagged
        /\ nodeRegion = lastCall.tags
        /\ \A e \in Elements : Len(elemAttributes[e]) = lastCall.base[e] + 2

\* the second successful call of a force object on a cornered mesh with a
\* membrane element
C11_Witness ==
    /\ SuccessfulCallsOnCorneredMesh
    /\ lastCall.calls = 2
    /\ membraneIndex \in Elements
    /\ Len(elemAttributes[membraneIndex]) = lastCall.base[membraneIndex] + 2

\* the last call was given a population over another mesh than the bound one
OtherMeshSupplied ==
    lastCall.calls >= 1 /\ populationMesh[lastCall.population] # lastCall.mesh

\* C12: a call that is given a population over another mesh than the one the
\* force object is bound to is rejected: it does not end normally and adds no
\* force.
C12_OtherMeshRejected ==
    OtherMeshSupplied => (lastCall.result # "ok" /\ lastCall.after = lastCall.before)

\* the force object of the last call has tagged the regions of the mesh
Tagged == lastCall.taggings >= 1

\* local index in element e of its corner number c (0 apical-left, 1
\* apical-right, 2 basal-right, 3 basal-left)
idx(e, c) == GetNodeLocalIndex(e, elemCornerNodes[e][c + 1])

\* the five ranges of local indices of element e, in order, with their tags
RegionRanges(e) ==
    << [lo |-> 0,             hi |-> idx(e, 1),      tag |-> msLat],
       [lo |-> idx(e, 1),     hi |-> idx(e, 0) + 1,  tag |-> msApi],
       [lo |-> idx(e, 0) + 1, hi |-> idx(e, 3),      tag |-> msLat],
       [lo |-> idx(e, 3),     hi |-> idx(e, 2) + 1,  tag |-> msBas],
       [lo |-> idx(e, 2) + 1, hi |-> GetNumNodes(e), tag |-> msLat] >>

\* the ranges of element e that hold local index j
RangesHolding(e, j) ==
    {k \in 1 .. 5 : RegionRanges(e)[k].lo <= j /\ j < RegionRanges(e)[k].hi}

RegionOf(e, j) == nodeRegion[GetNode(e, j)]

\* the corners of element e follow the node order: apical-right, apical-left,
\* basal-left, basal-right
CornersInNodeOrder(e) ==
    idx(e, 1) <= idx(e, 0) /\ idx(e, 0) < idx(e, 3) /\ idx(e, 3) <= idx(e, 2)

\* C13 as claimed: after set-up every node of an element that is not the
\* membrane has the tag of each of the five ranges that holds its local index.
C13_AsClaimed ==
    Tagged =>
        \A e \in Elements \ {membraneIndex} : \A j \in LocalIndices(e) :
            \A k \in RangesHolding(e, j) : RegionOf(e, j) = RegionRanges(e)[k].tag

\* C13: after set-up every node of an element that is not the membrane lies
\* in one of the five ranges at least and has the tag of the last range, in
\* their order, that holds its local index; when the corners follow the node
\* order only one range holds it.
C13_RegionRanges ==
    Tagged =>
        \A e \in Elements \ {membraneIndex} : \A j \in LocalIndices(e) :
            LET K == RangesHolding(e, j)
            IN  /\ K # {}
                /\ \A k \in K : (\A o \in K : o <= k) => RegionOf(e, j) = RegionRanges(e)[k].tag
                /\ CornersInNodeOrder(e) => Cardinality(K) = 1

\* set-up has tagged an ordinary element with a node in two ranges of
\* different tags, and an ordinary element with apical, basal and lateral nodes
C13_Witness ==
    /\ Tagged
    /\ \E e \in Elements \ {membraneIndex} : \E j \in LocalIndices(e) :
          \E k, o \in RangesHolding(e, j) : RegionRanges(e)[k].tag # RegionRanges(e)[o].tag
    /\ \E e \in Elements \ {membraneIndex} :
          /\ CornersInNodeOrder(e)
          /\ {RegionOf(e, j) : j \in LocalIndices(e)} = {msBas, msApi, msLat}

\* the tags of the nodes of element e, in node order
RegionsOf(e) == [j \in 1 .. GetNumNodes(e) |-> RegionOf(e, j - 1)]

TwelveNodeExample ==
    <<msLat, msLat, msApi, msApi, msApi, msApi, msLat, msLat, msBas, msBas, msBas, msBas>>

\* element 0, of 12 nodes and not the membrane, has been tagged with its
\* corners 0, 1, 2, 3 at the local indices q
TaggedWithCornersAt(q) ==
    /\ Tagged /\ membraneIndex # 0 /\ GetNumNodes(0) = 12
    /\ \A c \in 0 .. 3 : idx(0, c) = q[c + 1]

\* C14 as claimed: corners apical-left 2, apical-right 5, basal-right 8,
\* basal-left 11 give lateral 0, 1, apical 2..5, lateral 6, 7, basal 8..11.
C14_AsClaimed == TaggedWithCornersAt(<<2, 5, 8, 11>>) => RegionsOf(0) = TwelveNodeExample

\* C14: corners apical-left 2, apical-right 5, basal-right 8, basal-left 11
\* leave all 12 nodes lateral; lateral 0, 1, apical 2..5, lateral 6, 7, basal
\* 8..11 is the tagging of corners apical-right 2, apical-left 5, basal-left
\* 8, basal-right 11.
C14_TwelveNodeTagging ==
    /\ TaggedWithCornersAt(<<2, 5, 8, 11>>) => RegionsOf(0) = [j \in 1 .. 12 |-> msLat]
    /\ TaggedWithCornersAt(<<5, 2, 11, 8>>) => RegionsOf(0) = TwelveNodeExample

\* the 12-node element tagged with its corners at 2, 5, 8, 11 in the claim's
\* order
C14_Witness == TaggedWithCornersAt(<<2, 5, 8, 11>>) /\ RegionsOf(0)[3] = msLat

\* C15: after set-up every node of the membrane element is basal, wherever
\* the membrane element's corners are.
C15_MembraneBasal ==
    (Tagged /\ membraneIndex \in Elements) =>
        \A j \in LocalIndices(membraneIndex) : RegionOf(membraneIndex, j) = msBas

\* the 12-node element is the membrane, all basal, with its corners where
\* they give an ordinary element apical and lateral nodes
C15_Witness ==
    /\ Tagged /\ membraneIndex = 0
    /\ \A c \in 0 .. 3 : idx(0, c) = <<5, 2, 11, 8>>[c + 1]
    /\ RegionsOf(0) = [j \in 1 .. 12 |-> msBas]
    /\ \E j \in LocalIndices(1) : RegionOf(1, j) # msBas

\* the displacement, at the last call, from node 0 of element e to the node
\* half way round
AcrossElement(e) ==
    GetVectorFromAtoB(lastCall.location[GetNode(e, 0)],
                      lastCall.location[GetNode(e, GetNumNodes(e) \div 2)])

\* the apical and the basal length that set-up appended to element e
AppendedApical(e) == elemAttributes[e][lastCall.base[e] + 1]
AppendedBasal(e) == elemAttributes[e][lastCall.base[e] + 2]

\* a is the length of the grid vector v
IsLengthOf(a, v) == ~IsNaN(a) /\ a[1] >= 0 /\ RMul(a, a) = Whole(NormSquared(v))

\* C16 as claimed: the length appended twice to an element that is not the
\* membrane is the planar distance from node 0 to the node half way round.
C16_AsClaimed ==
    lastCall.tagged =>
        \A e \in Elements \ {membraneIndex} :
            /\ AppendedApical(e) = AppendedBasal(e)
            /\ IsLengthOf(AppendedApical(e), AcrossElement(e))

\* C16: the length appended twice to an element that is not the membrane is
\* the absolute x component of the displacement from node 0 to the node half
\* way round, which is their planar distance when the displacement has no y
\* component.
C16_BaselineIsWidth ==
    lastCall.tagged =>
        \A e \in Elements \ {membraneIndex} :
            /\ AppendedApical(e) = AppendedBasal(e)
            /\ AppendedApical(e) = Whole(Abs(AcrossElement(e)[1]))
            /\ AcrossElement(e)[2] = 0 => IsLengthOf(AppendedApical(e), AcrossElement(e))

\* set-up of an ordinary element whose node 0 and node half way round differ
\* in both coordinates
C16_Witness ==
    /\ lastCall.tagged
    /\ \E e \in Elements \ {membraneIndex} :
          /\ AcrossElement(e)[1] # 0 /\ AcrossElement(e)[2] # 0
          /\ AppendedApical(e) = Whole(Abs(AcrossElement(e)[1]))

\* the force object in use has made the last call and has tagged the mesh
TaggedByObjectInUse == lastCall.object = forceObject /\ Tagged

\* C17: once a force object has set up the mesh, its apical and basal lengths
\* of every element are the values its set-up appended, and the regions are
\* those its set-up tagged, whatever node movements and force calls followed.
C17_BaselineFrozen ==
    TaggedByObjectInUse =>
        /\ \A e \in Elements :
              /\ GetApicalLengthForElement(e) = lastCall.baseline[e][lastCall.base[e] + 1]
              /\ GetBasalLengthForElement(e) = lastCall.baseline[e][lastCall.base[e] + 2]
        /\ nodeRegion = lastCall.tags

\* a later call of the force object that set up the mesh, made after a node
\* moved and the width of an element changed
C17_Witness ==
    /\ TaggedByObjectInUse
    /\ lastCall.calls >= 2 /\ ~lastCall.tagged /\ CallOk
    /\ \E e \in Elements \ {membraneIndex} :
          /\ GetApicalLengthForElement(e) # WidthOfElement(e)
          /\ lastCall.location = nodeLocation

\* at the last call, local node i of element e and the next node of the ring
\* were in the same place
CoincidedWithNext(e, i) ==
    lastCall.location[GetNode(e, i)] = lastCall.location[GetNode(e, (i + 1) % GetNumNodes(e))]

\* C18: a call on a mesh in which a node and the next node of its ring
\* coincide raises nothing for it and does not skip the pair: the pair's
\* segment force is not a number, and so are the accumulators of its two
\* nodes after the call.
C18_ZeroDistanceUnguarded ==
    lastCall.calls >= 1 =>
        \A e \in Elements : \A i \in LocalIndices(e) :
            CoincidedWithNext(e, i) =>
                /\ lastCall.result = "ok"
                /\ lastCall.elastic[e][i] = NaNVec
                /\ lastCall.after[GetNode(e, i)] = NaNVec
                /\ lastCall.after[GetNode(e, (i + 1) % GetNumNodes(e))] = NaNVec

\* a call on a mesh with an element of one node, whose next node is itself
C18_Witness ==
    /\ CallOk
    /\ \E e \in Elements :
          /\ GetNumNodes(e) = 1
          /\ CoincidedWithNext(e, 0)
          /\ nodeAppliedForce[GetNode(e, 0)] = NaNVec

\* what the segment forces `elastic` of a call add to the accumulator of
\* local node i of element e
AddedBySegments(elastic, e, i) ==
    VSub(elastic[e][i], elastic[e][(i - 1) % GetNumNodes(e)])

\* C19: a first call on a mesh whose elements share a corner count other than
\* 4 tags no region and appends no attribute, and runs the force loop: it
\* adds to every node its two segment forces.
C19_NoSetupWithoutFourCorners ==
    [][(/\ CallStep /\ mpMesh = NULL
        /\ ~CountsDisagree(elemCornerNodes)
        /\ Len(elemCornerNodes[0]) # 4) =>
          /\ nodeRegion' = nodeRegion
          /\ elemAttributes' = elemAttributes
          /\ lastCall'.result = "ok"
          /\ lastCall'.elastic # <<>>
          /\ \A e \in Elements : \A i \in LocalIndices(e) :
                nodeAppliedForce'[GetNode(e, i)] =
                    VAdd(nodeAppliedForce[GetNode(e, i)],
                         AddedBySegments(lastCall'.elastic, e, i))]_vars

\* a first call on a mesh whose elements have 3 corners each, which left the
\* nodes untagged and the attributes as they were and added a force
C19_Witness ==
    /\ FirstCall /\ CallOk
    /\ \A e \in Elements : Len(lastCall.corners[e]) = 3
    /\ \A g \in Nodes : nodeRegion[g] = Untagged
    /\ elemAttributes = lastCall.attributes
    /\ \E g \in Nodes : Finite(lastCall.after[g]) /\ lastCall.after[g] # lastCall.before[g]

\* C20: a call of a force object that has a mesh bound changes the force
\* accumulators only: positions, regions, attributes, corners, the bound mesh
\* and the four configuration scalars stay as they are.
C20_LaterCallsOnlyAccumulate ==
    [][(CallStep /\ mpMesh # NULL) =>
          UNCHANGED <<nodeLocation, nodeRegion, elemAttributes, elemCornerNodes, elemNodes,
                      mpMesh, mSpringConstant, mRestLengthMultiplier,
                      mBasementSpringConstantModifier, mBasementRestLengthModifier>>]_vars

\* a later call on a mesh with 4 corners an element that changed an accumulator
C20_Witness ==
    /\ CallOk /\ ~lastCall.setup
    /\ \A e \in Elements : Len(elemCornerNodes[e]) = 4
    /\ lastCall.regions = nodeRegion /\ lastCall.attributes = elemAttributes
    /\ \E g \in Nodes : Finite(lastCall.after[g]) /\ lastCall.after[g] # lastCall.before[g]

\* the call before the last was a first call that a configuration error ended
FirstCallFailed == prevCall.setup /\ prevCall.result # "ok"

\* the last call was made by the same force object on the same mesh, its
\* corner tags and attributes as they were
CalledAgainOnSameMesh ==
    /\ lastCall.object = prevCall.object
    /\ lastCall.corners = prevCall.corners
    /\ lastCall.attributes = prevCall.attributes

\* C21: when the first call of a force object fails with a configuration
\* error, its next call on the same, still inconsistent mesh fails with the
\* same error and adds no force.
C21_FailedSetupRepeats ==
    (FirstCallFailed /\ CalledAgainOnSameMesh) =>
        /\ lastCall.result = prevCall.result
        /\ lastCall.after = lastCall.before

\* the last call was a first call that a configuration error ended
FailedFirstCall == FirstCall /\ lastCall.result # "ok"

\* C22: a first call that fails with a configuration error leaves every
\* region, position and accumulator and every attribute list as it was.
C22_ErrorLeavesMeshUntouched ==
    FailedFirstCall =>
        /\ nodeRegion = lastCall.regions
        /\ nodeLocation = lastCall.location
        /\ elemAttributes = lastCall.attributes
        /\ lastCall.after = lastCall.before
        /\ lastCall.elastic = <<>>

\* a first call that failed for the attribute counts on a mesh whose first
\* node carried a force already
C22_Witness ==
    /\ FailedFirstCall
    /\ lastCall.result = "attribute exception"
    /\ lastCall.before[0] # ZeroVec
    /\ nodeAppliedForce = lastCall.before
    /\ elemAttributes = lastCall.attributes

\* C23: after a successful set-up of a mesh with 4 corners an element, every
\* node of every element is basal, apical or lateral, wherever the corners
\* are and in whatever order.
C23_TaggingTotal ==
    (Tagged /\ lastCall.failures = 0) =>
        \A e \in Elements : \A j \in LocalIndices(e) :
            RegionOf(e, j) \in {msBas, msApi, msLat}

\* set-up has tagged every node of an ordinary element that has an empty
\* range and whose corners do not follow the node order
C23_Witness ==
    /\ Tagged /\ lastCall.failures = 0
    /\ \E e \in Elements \ {membraneIndex} :
          /\ ~CornersInNodeOrder(e)
          /\ \E k \in 1 .. 5 : RegionRanges(e)[k].lo > RegionRanges(e)[k].hi
          /\ \A j \in LocalIndices(e) : RegionOf(e, j) # Untagged

RECURSIVE AddedToElement(_, _)
\* the sum of what the last call added to the first n nodes of element e
AddedToElement(e, n) ==
    IF n = 0 THEN ZeroVec
    ELSE VAdd(AddedToElement(e, n - 1), Added(lastCall)[GetNode(e, n - 1)])

RECURSIVE TotalForce(_, _)
\* the sum of the accumulators `force` of the nodes 0 .. n - 1
TotalForce(force, n) ==
    IF n = 0 THEN ZeroVec ELSE VAdd(TotalForce(force, n - 1), force[n - 1])

\* at the last call every segment of element e had a length above 0
NoSegmentOfLengthZero(e) == \A i \in LocalIndices(e) : ~CoincidedWithNext(e, i)

\* C24: in a call the forces added to the nodes of an element whose segments
\* all have a length above 0 sum to the zero vector; when that is so for all
\* elements, the sum of all accumulators is after the call what it was before.
C24_ForcesBalance ==
    CallOk =>
        /\ \A e \in Elements :
              NoSegmentOfLengthZero(e) => AddedToElement(e, GetNumNodes(e)) = ZeroVec
        /\ (\A e \in Elements : NoSegmentOfLengthZero(e)) =>
              TotalForce(lastCall.after, Cardinality(Nodes)) =
                  TotalForce(lastCall.before, Cardinality(Nodes))

\* a call that added forces, not all zero, to an element whose segments have
\* different lengths, all above 0, and whose first node carried a force
C24_Witness ==
    /\ CallOk
    /\ \E e \in Elements :
          /\ NoSegmentOfLengthZero(e)
          /\ \E i, j \in LocalIndices(e) :
                lastCall.elastic[e][i] # lastCall.elastic[e][j]
          /\ \E i \in LocalIndices(e) : Added(lastCall)[GetNode(e, i)] # ZeroVec
    /\ lastCall.before[0] # ZeroVec
    /\ \A e \in Elements : NoSegmentOfLengthZero(e)

\* C25: after a first call that ended without error, whatever the common
\* corner count, the attribute offset the getters read is element 0's
\* attribute count before the call, and the assertions of both getters hold
\* for every element.
C25_GettersUsable ==
    (FirstCall /\ CallOk /\ lastCall.object = forceObject) =>
        \A attribute_location \in AttributeLocationsRead :
            /\ attribute_location = Len(lastCall.attributes[0])
            /\ \A e \in Elements : GetterAssertionsHold(e, attribute_location)

\* s is a beginning of the sequence t
IsPrefix(s, t) == Len(s) <= Len(t) /\ \A i \in 1 .. Len(s) : s[i] = t[i]

FourCalls ==
    <<"SetupSingletons", "SetupAndRunSimulation", "DestroySingletons", "OutputOnCompletion">>

\* C26: without --help main calls SetupSingletons, SetupAndRunSimulation,
\* DestroySingletons and OutputOnCompletion in this order, each once by the
\* time it returns, and the completion message is printed once, after the
\* simulation has run and the singletons are destroyed; with --help main
\* returns 1 and has called none of them.
C26_MainOrder ==
    /\ IsPrefix(driver.trace, FourCalls)
    /\ (driver.returned /\ ~driver.help) => (driver.trace = FourCalls /\ driver.status = 0)
    /\ driver.output # <<>> =>
          /\ Len(driver.output) = 1
          /\ driver.output[1].simulationTime = "destroyed"
          /\ driver.output[1].springConst = driver.spring_const
          /\ driver.output[1].ID = driver.simulation_id
          /\ driver.directory = <<driver.spring_const, driver.simulation_id>>
          /\ driver.results = <<100 * driver.spring_const>>
          /\ driver.solving = 0
    /\ driver.help =>
          (driver.returned /\ driver.status = 1 /\ driver.trace = <<>> /\ driver.output = <<>>)

\* main has returned after a simulation with ID 1 and K 2 in which the force
\* law was applied, and has printed the completion message
C26_Witness ==
    /\ driver.returned /\ ~driver.help
    /\ driver.simulation_id = 1 /\ driver.spring_const = 2
    /\ driver.trace = FourCalls
    /\ Len(driver.output) = 1
    /\ CallOk

====
